---- MODULE Spec2Model ----
(***************************************************************************)
(* x-feed: four drivers (__main__.py and local.py post tweets once;        *)
(* discord.py and slack.py post to a webhook in a loop).  Each driver      *)
(* picks a feed from rss_feeds.txt, takes the first entry of the feed      *)
(* whose link is not in logs/posted_articles.json, has a summary           *)
(* generated, publishes it and appends the link to the history file.       *)
(*                                                                         *)
(* Text is modelled as sequences of one-character strings, so that         *)
(* splitting, stripping and the JSON encoding of the history file are      *)
(* computed the way the code computes them.                                *)
(***************************************************************************)
EXTENDS Integers, Sequences, FiniteSets, TLC

\* ------------------------------------------------------------ bounds
\* Longest rss_feeds.txt content explored by the feed-selector check.
MaxFileLen == 4
\* Longest feed (number of entries) explored.
MaxEntries == 2
\* Longest history explored by the fetcher check.
MaxHist == 2
\* Number of times a driver process is started again after it ended.
MaxRuns == 1
\* Number of save_history calls explored by the history-store check.
MaxSaves == 2

\* ------------------------------------------------------------ text
\* Characters of whitespace known to str.strip() and str.split().
Whitespace == {" ", "\t"}

\* The characters a feed list is made of here: a URL letter, a blank, the
\* comment marker, the '!' separator and the line break.
FileChars == {"u", " ", "#", "!", "\n"}

RECURSIVE SeqsUpTo(_, _)
\* All sequences over S of length at most n.
SeqsUpTo(S, n) ==
    IF n = 0 THEN {<<>>}
    ELSE LET shorter == SeqsUpTo(S, n - 1)
         IN  shorter \cup {Append(s, x) : s \in {t \in shorter : Len(t) = n - 1}, x \in S}

\* Index of the first position of s holding a character of set C, or 0.
FirstIn(s, C) ==
    IF \E k \in 1..Len(s) : s[k] \in C
    THEN CHOOSE k \in 1..Len(s) : s[k] \in C /\ \A j \in 1..(k - 1) : s[j] \notin C
    ELSE 0

\* Index of the last position of s holding a character outside C, or 0.
LastNotIn(s, C) ==
    IF \E k \in 1..Len(s) : s[k] \notin C
    THEN CHOOSE k \in 1..Len(s) : s[k] \notin C /\ \A j \in (k + 1)..Len(s) : s[j] \in C
    ELSE 0

\* Index of the first position of s holding a character outside C, or 0.
FirstNotIn(s, C) ==
    IF \E k \in 1..Len(s) : s[k] \notin C
    THEN CHOOSE k \in 1..Len(s) : s[k] \notin C /\ \A j \in 1..(k - 1) : s[j] \in C
    ELSE 0

\* str.startswith(c) for a one-character prefix.
StartsWith(s, c) == Len(s) > 0 /\ s[1] = c

\* str.strip(): whitespace removed at both ends.
Strip(s) ==
    IF FirstNotIn(s, Whitespace) = 0 THEN <<>>
    ELSE SubSeq(s, FirstNotIn(s, Whitespace), LastNotIn(s, Whitespace))

\* str.rstrip(): whitespace removed at the right end.
RStrip(s) == SubSeq(s, 1, LastNotIn(s, Whitespace))

\* str.split(d)[0]: the text before the first occurrence of d (all of it
\* when d does not occur).
SplitFirst(s, d) ==
    IF FirstIn(s, {d}) = 0 THEN s ELSE SubSeq(s, 1, FirstIn(s, {d}) - 1)

RECURSIVE SplitWhitespace(_)
\* str.split(): the maximal runs of non-whitespace characters.
SplitWhitespace(s) ==
    LET b == FirstNotIn(s, Whitespace)
        rest == SubSeq(s, b, Len(s))
        e == FirstIn(rest, Whitespace)
    IN  IF b = 0 THEN <<>>
        ELSE IF e = 0 THEN <<rest>>
        ELSE <<SubSeq(rest, 1, e - 1)>> \o SplitWhitespace(SubSeq(rest, e, Len(rest)))

RECURSIVE SplitLines(_)
\* str.splitlines(): the lines of a text, line breaks removed; a final line
\* break opens no further line.
SplitLines(s) ==
    LET n == FirstIn(s, {"\n"})
    IN  IF Len(s) = 0 THEN <<>>
        ELSE IF n = 0 THEN <<s>>
        ELSE <<SubSeq(s, 1, n - 1)>> \o SplitLines(SubSeq(s, n + 1, Len(s)))

\* ------------------------------------------------------------ drivers
Drivers == {"tweet", "local", "discord", "slack"}

\* The two tweet drivers run one cycle and exit; the webhook drivers loop.
SingleShot(d) == d \in {"tweet", "local"}

\* The tweet drivers cut a feed line at '!', the webhook drivers at whitespace.
CutsAtBang(d) == d \in {"tweet", "local"}

\* ------------------------------------------------------------ feed selector
\* The filter of get_random_feed_url: the line is kept when it is not empty
\* and does not start with '#'.
KeepsLine(line) == Len(line) > 0 /\ ~StartsWith(line, "#")

\* The URL part of a kept line: line.split('!')[0].strip() in the tweet
\* drivers, line.split()[0].strip() in the webhook drivers, where indexing
\* the empty list raises IndexError.
UrlPart(d, line) ==
    IF CutsAtBang(d) THEN [err |-> "", url |-> Strip(SplitFirst(line, "!"))]
    ELSE IF SplitWhitespace(line) = <<>> THEN [err |-> "IndexError", url |-> <<>>]
    ELSE [err |-> "", url |-> Strip(SplitWhitespace(line)[1])]

RECURSIVE ValidFeeds(_, _)
\* valid_feeds after the loop over the lines; err is set when a line raised.
ValidFeeds(d, lines) ==
    IF lines = <<>> THEN [err |-> "", urls |-> <<>>]
    ELSE IF ~KeepsLine(Head(lines)) THEN ValidFeeds(d, Tail(lines))
    ELSE LET u == UrlPart(d, Head(lines))
             rest == ValidFeeds(d, Tail(lines))
         IN  IF u.err # "" THEN [err |-> u.err, urls |-> <<>>]
             ELSE IF rest.err # "" THEN rest
             ELSE [err |-> "", urls |-> <<u.url>> \o rest.urls]

\* get_random_feed_url with a silent default: a blank URL when no line is
\* left (mutant).
GetRandomFeedUrlDefault(d, content) ==
    LET v == ValidFeeds(d, SplitLines(content))
    IN  IF v.err # "" THEN [err |-> v.err, urls |-> {}]
        ELSE IF v.urls = <<>> THEN [err |-> "", urls |-> {<<>>}]
        ELSE [err |-> "", urls |-> {v.urls[k] : k \in 1..Len(v.urls)}]

\* get_random_feed_url on the content of the feed list: the URLs that
\* random.choice may return, or the error raised (random.choice of an empty
\* list raises IndexError).
GetRandomFeedUrl(d, content) ==
    LET v == ValidFeeds(d, SplitLines(content))
    IN  IF v.err # "" THEN [err |-> v.err, urls |-> {}]
        ELSE IF v.urls = <<>> THEN [err |-> "IndexError", urls |-> {}]
        ELSE [err |-> "", urls |-> {v.urls[k] : k \in 1..Len(v.urls)}]

\* ------------------------------------------------------------ JSON
\* An encoder that writes a backslash as it is (mutant).
EscapeNoBackslash(c) ==
    CASE c = "\"" -> <<"\\", "\"">>
      [] c = "\n" -> <<"\\", "n">>
      [] c = "\t" -> <<"\\", "t">>
      [] OTHER -> <<c>>

\* json.dump escapes these characters inside a string.
Escape(c) ==
    CASE c = "\"" -> <<"\\", "\"">>
      [] c = "\\" -> <<"\\", "\\">>
      [] c = "\n" -> <<"\\", "n">>
      [] c = "\t" -> <<"\\", "t">>
      [] OTHER -> <<c>>

RECURSIVE EscapeAll(_)
EscapeAll(s) == IF s = <<>> THEN <<>> ELSE Escape(Head(s)) \o EscapeAll(Tail(s))

\* A JSON string literal.
EncodeString(s) == <<"\"">> \o EscapeAll(s) \o <<"\"">>

\* The keys of a history record.
KeyUrl == <<"u", "r", "l">>
KeyDate == <<"d", "a", "t", "e">>

\* The dict {'url': url, 'date': date}.
HistoryRecord(url, date) == (KeyUrl :> url) @@ (KeyDate :> date)

\* One record as json.dump(..., indent=2) writes it, at nesting level 1.
DumpRecord(r) ==
    <<" ", " ", "{", "\n", " ", " ", " ", " ">>
    \o EncodeString(KeyUrl) \o <<":", " ">> \o EncodeString(r[KeyUrl])
    \o <<",", "\n", " ", " ", " ", " ">>
    \o EncodeString(KeyDate) \o <<":", " ">> \o EncodeString(r[KeyDate])
    \o <<"\n", " ", " ", "}">>

RECURSIVE DumpRecords(_)
DumpRecords(rs) ==
    IF Len(rs) = 1 THEN DumpRecord(rs[1])
    ELSE DumpRecord(Head(rs)) \o <<",", "\n">> \o DumpRecords(Tail(rs))

\* json.dump(posted_articles, f, indent=2): the text written to the file.
JsonDump(rs) ==
    IF rs = <<>> THEN <<"[", "]">>
    ELSE <<"[", "\n">> \o DumpRecords(rs) \o <<"\n", "]">>

\* Whitespace between JSON tokens.
JsonWs == {" ", "\t", "\n", "\r"}

\* The first position at or after p that holds no JSON whitespace.
SkipWs(s, p) ==
    IF \E k \in p..Len(s) : s[k] \notin JsonWs
    THEN CHOOSE k \in p..Len(s) : s[k] \notin JsonWs /\ \A j \in p..(k - 1) : s[j] \in JsonWs
    ELSE Len(s) + 1

\* The character at position p, "" past the end.
At(s, p) == IF p \in 1..Len(s) THEN s[p] ELSE ""

Fail == [ok |-> FALSE, val |-> <<>>, pos |-> 0]

RECURSIVE ParseChars(_, _, _)
\* The rest of a string literal from position p, acc being what was read.
ParseChars(s, p, acc) ==
    LET c == At(s, p)
        e == At(s, p + 1)
    IN  IF c = "" \/ c \in {"\n", "\t", "\r"} THEN Fail
        ELSE IF c = "\"" THEN [ok |-> TRUE, val |-> acc, pos |-> p + 1]
        ELSE IF c # "\\" THEN ParseChars(s, p + 1, Append(acc, c))
        ELSE IF e \in {"\"", "\\", "/"} THEN ParseChars(s, p + 2, Append(acc, e))
        ELSE IF e = "n" THEN ParseChars(s, p + 2, Append(acc, "\n"))
        ELSE IF e = "t" THEN ParseChars(s, p + 2, Append(acc, "\t"))
        ELSE IF e = "r" THEN ParseChars(s, p + 2, Append(acc, "\r"))
        ELSE Fail

\* A string literal at position p.
ParseString(s, p) == IF At(s, p) = "\"" THEN ParseChars(s, p + 1, <<>>) ELSE Fail

RECURSIVE ParseMembers(_, _, _)
\* The members of an object from position p (a key is expected there), acc
\* being the dict read so far; a repeated key overrides.
ParseMembers(s, p, acc) ==
    LET k == ParseString(s, p)
        colon == SkipWs(s, k.pos)
        v == ParseString(s, SkipWs(s, colon + 1))
        after == SkipWs(s, v.pos)
        dict == (k.val :> v.val) @@ acc
    IN  IF ~k.ok \/ At(s, colon) # ":" \/ ~v.ok THEN Fail
        ELSE IF At(s, after) = "}" THEN [ok |-> TRUE, val |-> dict, pos |-> after + 1]
        ELSE IF At(s, after) = "," THEN ParseMembers(s, SkipWs(s, after + 1), dict)
        ELSE Fail

\* An object of string members at position p.
ParseObject(s, p) ==
    IF At(s, p) # "{" THEN Fail
    ELSE IF At(s, SkipWs(s, p + 1)) = "}"
    THEN [ok |-> TRUE, val |-> <<>>, pos |-> SkipWs(s, p + 1) + 1]
    ELSE ParseMembers(s, SkipWs(s, p + 1), <<>>)

RECURSIVE ParseElements(_, _, _)
\* The elements of an array from position p (an object is expected there).
ParseElements(s, p, acc) ==
    LET o == ParseObject(s, p)
        after == SkipWs(s, o.pos)
    IN  IF ~o.ok THEN Fail
        ELSE IF At(s, after) = "]"
        THEN [ok |-> TRUE, val |-> Append(acc, o.val), pos |-> after + 1]
        ELSE IF At(s, after) = ","
        THEN ParseElements(s, SkipWs(s, after + 1), Append(acc, o.val))
        ELSE Fail

\* An array of objects at position p.
ParseArray(s, p) ==
    IF At(s, p) # "[" THEN Fail
    ELSE IF At(s, SkipWs(s, p + 1)) = "]"
    THEN [ok |-> TRUE, val |-> <<>>, pos |-> SkipWs(s, p + 1) + 1]
    ELSE ParseElements(s, SkipWs(s, p + 1), <<>>)

\* json.load on the text of the history file: the list read, or failure
\* (JSONDecodeError) when the text is no JSON document.
JsonLoad(s) ==
    LET a == ParseArray(s, SkipWs(s, 1))
    IN  IF a.ok /\ SkipWs(s, a.pos) = Len(s) + 1 THEN [ok |-> TRUE, val |-> a.val]
        ELSE [ok |-> FALSE, val |-> <<>>]

\* ------------------------------------------------------------ state
VARIABLES
    driver,           \* which of the four programs runs
    feedFile,         \* the text of rss_feeds.txt
    historyFile,      \* logs/posted_articles.json: [exists, text, whole]
    readable,         \* whether open(history_file, 'r') is permitted
    pc,               \* per process: where main() stands
    posted_articles,  \* per process: bot.posted_articles
    feed_url,         \* per process: <<>> or <<the URL selected>>
    entries,          \* per process: feed.entries of the last fetch
    article,          \* per process: <<>> or <<the article found>>
    stages,           \* per process: the stages entered in the current cycle
    raised,           \* per process: the exception raised in the current cycle
    logline,          \* per process: the last logging.error prefix
    pubCount,         \* per link: how many publishes of it succeeded
    runs,             \* how many times a process was started again
    calls,            \* the urls given to save_history since the last load
    lastOp,           \* the last history-store operation and its outcome
    tweet,            \* per process: <<>> or <<the text generated>>
    sent              \* per process: <<>> or <<the text given to the publisher>>

vars == <<driver, feedFile, historyFile, readable, pc, posted_articles, feed_url,
          entries, article, stages, raised, logline, pubCount, runs, calls, lastOp,
          tweet, sent>>

\* The processes: one driver process, and a second one for the runs in which
\* two drivers share the history file.
Insts == {1, 2}

\* The links that feeds carry (the second needs escaping in JSON).
Links == {<<"a">>, <<"b", "\"">>}

\* What feedparser.parse may return: every sequence of entries over Links.
Entry(l) == [link |-> l]
Feeds == SeqsUpTo({Entry(l) : l \in Links}, MaxEntries)

\* Values of datetime.now(): whole seconds and microseconds.
Times == {[sec |-> 0, usec |-> 0], [sec |-> 7, usec |-> 5]}

Digit(n) == <<"0", "1", "2", "3", "4", "5", "6", "7", "8", "9">>[n + 1]

\* datetime.isoformat(): the microseconds are left out when they are zero.
IsoFormat(t) ==
    <<"T", Digit(t.sec)>> \o (IF t.usec = 0 THEN <<>> ELSE <<".", Digit(t.usec)>>)

\* ------------------------------------------------------------ history store
\* load_history that starts empty when the file is no JSON (mutant).
LoadHistoryLenient(file, canRead) ==
    IF ~file.exists THEN [err |-> "", val |-> <<>>]
    ELSE IF ~canRead THEN [err |-> "PermissionError", val |-> <<>>]
    ELSE [err |-> "", val |-> JsonLoad(file.text).val]

\* load_history: [] when the file is absent, else json.load of it; open()
\* raises when the file may not be read, json.load when it is no JSON.
LoadHistory(file, canRead) ==
    IF ~file.exists THEN [err |-> "", val |-> <<>>]
    ELSE IF ~canRead THEN [err |-> "PermissionError", val |-> <<>>]
    ELSE IF ~JsonLoad(file.text).ok THEN [err |-> "JSONDecodeError", val |-> <<>>]
    ELSE [err |-> "", val |-> JsonLoad(file.text).val]

\* An append that skips a url the list already holds (mutant).
AppendRecordOnce(hist, url, t) ==
    IF \E j \in 1..Len(hist) : hist[j][KeyUrl] = url THEN hist
    ELSE Append(hist, HistoryRecord(url, IsoFormat(t)))

\* The list after posted_articles.append({'url': ..., 'date': ...}).
AppendRecord(hist, url, t) == Append(hist, HistoryRecord(url, IsoFormat(t)))

\* The file opened with mode 'a' instead of 'w': the dump is added after
\* what the file holds (mutant).
WrittenFileAppendMode(file, hist, outcome, k) ==
    CASE outcome = "ok" ->
            [exists |-> TRUE, text |-> file.text \o JsonDump(hist), whole |-> TRUE]
      [] outcome = "open_fails" -> file
      [] OTHER ->
            [exists |-> TRUE, text |-> file.text \o SubSeq(JsonDump(hist), 1, k),
             whole |-> FALSE]

\* What open(history_file, 'w') and json.dump leave in the file: the whole
\* dump; or the file as it was, when open() raises; or the file cut off
\* after k characters, when a write raises.
WriteOutcomes == {"ok", "open_fails", "write_fails"}

WrittenFile(file, hist, outcome, k) ==
    CASE outcome = "ok" -> [exists |-> TRUE, text |-> JsonDump(hist), whole |-> TRUE]
      [] outcome = "open_fails" -> file
      [] OTHER -> [exists |-> TRUE, text |-> SubSeq(JsonDump(hist), 1, k), whole |-> FALSE]

\* The places at which a failing write cuts the dump off.
CutPoints(hist) == {0, Len(JsonDump(hist)) \div 2, Len(JsonDump(hist)) - 1}

\* ------------------------------------------------------------ fetcher
\* A lookup that compares with the last record only (mutant).
IsPostedLastOnly(link, hist) == Len(hist) > 0 /\ hist[Len(hist)][KeyUrl] = link

\* any(post['url'] == entry.link for post in self.posted_articles)
IsPosted(link, hist) == \E j \in 1..Len(hist) : hist[j][KeyUrl] = link

RECURSIVE FirstUnposted(_, _)
\* The loop over feed.entries: the first entry that is not posted, as <<e>>,
\* or <<>> when the loop ends.
FirstUnposted(es, hist) ==
    IF es = <<>> THEN <<>>
    ELSE IF ~IsPosted(Head(es).link, hist) THEN <<Head(es)>>
    ELSE FirstUnposted(Tail(es), hist)

\* get_latest_article without the check for an empty feed (mutant).
GetLatestArticleNoEmptyCheck(es, hist) ==
    IF FirstUnposted(es, hist) = <<>> THEN [err |-> "NoNewArticles", article |-> <<>>]
    ELSE [err |-> "", article |-> FirstUnposted(es, hist)]

\* get_latest_article on the entries parsed.
GetLatestArticle(es, hist) ==
    IF es = <<>> THEN [err |-> "NoEntries", article |-> <<>>]
    ELSE IF FirstUnposted(es, hist) = <<>> THEN [err |-> "NoNewArticles", article |-> <<>>]
    ELSE [err |-> "", article |-> FirstUnposted(es, hist)]

\* A feed whose content stays the same while the drivers run: both links, in
\* this order.
StableUrl == <<"u", "u">>
StableFeed == <<Entry(<<"a">>), Entry(<<"b", "\"">>)>>

\* feedparser.parse(feed_url).entries: nothing for a blank URL or a comment,
\* the same entries each time for the stable feed, else whatever the feed
\* carries at the time.
Served(url) ==
    IF url = <<>> \/ StartsWith(url, "#") THEN {<<>>}
    ELSE IF url = StableUrl THEN {StableFeed}
    ELSE Feeds

\* The placeholder the prompt of generate_tweet speaks of.
Placeholder == <<"[", "U", "R", "L", "]">>

\* sub in s: the text sub occurs in the text s.
Contains(sub, s) ==
    \E k \in 0..(Len(s) - Len(sub)) : SubSeq(s, k + 1, k + Len(sub)) = sub

\* str.replace with a count of one: only the first occurrence is replaced
\* (mutant).
ReplaceFirst(s, old, new) ==
    IF ~Contains(old, s) THEN s
    ELSE LET k == CHOOSE j \in 0..(Len(s) - Len(old)) :
                    /\ SubSeq(s, j + 1, j + Len(old)) = old
                    /\ \A h \in 0..(j - 1) : SubSeq(s, h + 1, h + Len(old)) # old
         IN  SubSeq(s, 1, k) \o new \o SubSeq(s, k + Len(old) + 1, Len(s))

\* str.replace(old, new): every occurrence of old, found from the left
\* without overlap, is replaced by new.
RECURSIVE Replace(_, _, _)
Replace(s, old, new) ==
    IF Len(s) < Len(old) THEN s
    ELSE IF SubSeq(s, 1, Len(old)) = old
         THEN new \o Replace(SubSeq(s, Len(old) + 1, Len(s)), old, new)
         ELSE <<s[1]>> \o Replace(Tail(s), old, new)

\* local.py main(): the link is put into a text that lacks it.
EnsureUrl(text, link) ==
    IF Contains(link, text) THEN text
    ELSE IF Contains(Placeholder, text)
         THEN Replace(text, Placeholder, link)
         ELSE RStrip(text) \o <<" ">> \o link

\* The text main() hands to the publisher: the local driver enforces the
\* link, the other drivers pass the generated text on.
PostText(d, text, link) == IF d = "local" THEN EnsureUrl(text, link) ELSE text

\* What the model answers in the driver runs: a text that ends in white
\* space and holds neither link nor placeholder.
Replies == {<<"x", " ">>}

\* ------------------------------------------------------------ main()
\* The stages of one cycle, in the order main() calls them.
CycleStages == <<"select", "fetch", "generate", "publish", "save">>

\* Where a process stands while main() runs.
Running == {"boot", "select", "fetch", "generate", "publish", "save", "sleep"}

\* Where a process stands after main() ended: returned, raised, stopped by
\* Ctrl-C in the loop drivers, killed by Ctrl-C in the tweet drivers.
Ended == {"done", "failed", "stopped", "killed"}

\* Every driver swallows the exception as the loop drivers do (mutant).
CycleFailsSwallowed(i, kind) ==
    /\ raised' = [raised EXCEPT ![i] = kind]
    /\ logline' = [logline EXCEPT ![i] = "Error in main loop"]
    /\ pc' = [pc EXCEPT ![i] = "sleep"]

\* Every driver raises the exception again as the tweet drivers do (mutant).
CycleFailsRaised(i, kind) ==
    /\ raised' = [raised EXCEPT ![i] = kind]
    /\ logline' = [logline EXCEPT ![i] = "Error"]
    /\ pc' = [pc EXCEPT ![i] = "failed"]

\* An exception raised inside the try of a cycle.  The tweet drivers log
\* "Error" and raise it again; the loop drivers log "Error in main loop" and
\* go on to the sleep.
CycleFails(i, kind) ==
    /\ raised' = [raised EXCEPT ![i] = kind]
    /\ logline' = [logline EXCEPT ![i] =
                      IF SingleShot(driver) THEN "Error" ELSE "Error in main loop"]
    /\ pc' = [pc EXCEPT ![i] = IF SingleShot(driver) THEN "failed" ELSE "sleep"]

\* An exception raised by the constructor: logged ("Fatal error" in the loop
\* drivers, whose loop has not begun) and raised again.
StartupFails(i, kind) ==
    /\ raised' = [raised EXCEPT ![i] = kind]
    /\ logline' = [logline EXCEPT ![i] =
                      IF SingleShot(driver) THEN "Error" ELSE "Fatal error"]
    /\ pc' = [pc EXCEPT ![i] = "failed"]

\* A stage that returned: main() goes on to `next`.
Proceeds(i, next) ==
    /\ pc' = [pc EXCEPT ![i] = next]
    /\ UNCHANGED <<raised, logline>>

\* bot = Rss...Bot(): the constructor loads the history.
Construct(i) ==
    /\ pc[i] = "boot"
    /\ LET r == LoadHistory(historyFile, readable)
       IN  IF r.err = ""
           THEN /\ posted_articles' = [posted_articles EXCEPT ![i] = r.val]
                /\ Proceeds(i, "select")
           ELSE /\ StartupFails(i, r.err)
                /\ UNCHANGED posted_articles
    /\ UNCHANGED <<driver, feedFile, historyFile, readable, feed_url, entries,
                   article, stages, pubCount, runs, calls, lastOp,
                   tweet, sent>>

\* feed_url = bot.get_random_feed_url('rss_feeds.txt'), first call of a cycle.
SelectFeed(i) ==
    /\ pc[i] = "select"
    /\ stages' = [stages EXCEPT ![i] = <<"select">>]
    /\ entries' = [entries EXCEPT ![i] = <<>>]
    /\ article' = [article EXCEPT ![i] = <<>>]
    /\ tweet' = [tweet EXCEPT ![i] = <<>>]
    /\ sent' = [sent EXCEPT ![i] = <<>>]
    /\ LET r == GetRandomFeedUrl(driver, feedFile)
       IN  IF r.err # ""
           THEN /\ CycleFails(i, r.err)
                /\ feed_url' = [feed_url EXCEPT ![i] = <<>>]
           ELSE /\ \E u \in r.urls : feed_url' = [feed_url EXCEPT ![i] = <<u>>]
                /\ pc' = [pc EXCEPT ![i] = "fetch"]
                /\ raised' = [raised EXCEPT ![i] = ""]
                /\ UNCHANGED logline
    /\ UNCHANGED <<driver, feedFile, historyFile, readable, posted_articles,
                   pubCount, runs, calls, lastOp>>

\* article = bot.get_latest_article(feed_url)
Fetch(i) ==
    /\ pc[i] = "fetch"
    /\ stages' = [stages EXCEPT ![i] = Append(@, "fetch")]
    /\ \E es \in Served(feed_url[i][1]) :
         LET r == GetLatestArticle(es, posted_articles[i])
         IN  /\ entries' = [entries EXCEPT ![i] = es]
             /\ IF r.err # ""
                THEN CycleFails(i, r.err) /\ UNCHANGED article
                ELSE /\ article' = [article EXCEPT ![i] = r.article]
                     /\ Proceeds(i, "generate")
    /\ UNCHANGED <<driver, feedFile, historyFile, readable, posted_articles,
                   feed_url, pubCount, runs, calls, lastOp,
                   tweet, sent>>

\* bot.generate_tweet(article) / bot.generate_summary(article): any status
\* but 200 raises.
Generate(i) ==
    /\ pc[i] = "generate"
    /\ stages' = [stages EXCEPT ![i] = Append(@, "generate")]
    /\ \E status \in {200, 500} :
         IF status # 200
         THEN /\ CycleFails(i, "ApiError")
              /\ UNCHANGED tweet
         ELSE /\ \E content \in Replies : tweet' = [tweet EXCEPT ![i] = <<Strip(content)>>]
              /\ Proceeds(i, "publish")
    /\ UNCHANGED <<driver, feedFile, historyFile, readable, posted_articles,
                   feed_url, entries, article, pubCount, runs, calls, lastOp, sent>>

\* A publish whose response is not checked: main() goes on to save_history
\* when the destination refused the post (mutant).
PublishUnchecked(i) ==
    /\ pc[i] = "publish"
    /\ stages' = [stages EXCEPT ![i] = Append(@, "publish")]
    /\ \E accepted \in BOOLEAN :
         /\ pubCount' = IF accepted
                        THEN [pubCount EXCEPT ![article[i][1].link] = @ + 1]
                        ELSE pubCount
         /\ Proceeds(i, "save")
    /\ sent' = [sent EXCEPT ![i] = <<PostText(driver, tweet[i][1], article[i][1].link)>>]
    /\ UNCHANGED <<driver, feedFile, historyFile, readable, posted_articles,
                   feed_url, entries, article, runs, calls, lastOp, tweet>>

\* bot.post_tweet / post_to_discord / post_to_slack: the destination takes
\* the post, or the call raises.
Publish(i) ==
    /\ pc[i] = "publish"
    /\ stages' = [stages EXCEPT ![i] = Append(@, "publish")]
    /\ \E accepted \in BOOLEAN :
         IF accepted
         THEN /\ pubCount' = [pubCount EXCEPT ![article[i][1].link] = @ + 1]
              /\ Proceeds(i, "save")
         ELSE /\ CycleFails(i, "PublishError")
              /\ UNCHANGED pubCount
    /\ sent' = [sent EXCEPT ![i] = <<PostText(driver, tweet[i][1], article[i][1].link)>>]
    /\ UNCHANGED <<driver, feedFile, historyFile, readable, posted_articles,
                   feed_url, entries, article, runs, calls, lastOp, tweet>>

\* bot.save_history(article['link']): the record is appended in memory, then
\* the file is rewritten from the whole list.
SaveHistory(i) ==
    /\ pc[i] = "save"
    /\ stages' = [stages EXCEPT ![i] = Append(@, "save")]
    /\ \E t \in Times, o \in WriteOutcomes :
         LET hist == AppendRecord(posted_articles[i], article[i][1].link, t)
         IN  /\ posted_articles' = [posted_articles EXCEPT ![i] = hist]
             /\ \E k \in CutPoints(hist) : historyFile' = WrittenFile(historyFile, hist, o, k)
             /\ IF o = "ok"
                THEN Proceeds(i, IF SingleShot(driver) THEN "done" ELSE "sleep")
                ELSE CycleFails(i, "OSError")
    /\ UNCHANGED <<driver, feedFile, readable, feed_url, entries, article,
                   pubCount, runs, calls, lastOp,
                   tweet, sent>>

\* time.sleep(interval), then the next turn of while True.
Sleep(i) ==
    /\ pc[i] = "sleep"
    /\ pc' = [pc EXCEPT ![i] = "select"]
    /\ UNCHANGED <<driver, feedFile, historyFile, readable, posted_articles, feed_url,
                   entries, article, stages, raised, logline, pubCount, runs, calls, lastOp,
                   tweet, sent>>

\* Ctrl-C: KeyboardInterrupt is no Exception, so no cycle guard catches it;
\* the loop drivers log "Bot stopped by user" and return, the tweet drivers
\* die of it.
Interrupt(i) ==
    /\ pc[i] \in Running
    /\ pc' = [pc EXCEPT ![i] = IF SingleShot(driver) THEN "killed" ELSE "stopped"]
    /\ UNCHANGED <<driver, feedFile, historyFile, readable, posted_articles, feed_url,
                   entries, article, stages, raised, logline, pubCount, runs, calls, lastOp,
                   tweet, sent>>

\* The program is started again: a new process, nothing kept but the files.
Restart(i) ==
    /\ pc[i] \in Ended
    /\ runs < MaxRuns
    /\ runs' = runs + 1
    /\ pc' = [pc EXCEPT ![i] = "boot"]
    /\ posted_articles' = [posted_articles EXCEPT ![i] = <<>>]
    /\ feed_url' = [feed_url EXCEPT ![i] = <<>>]
    /\ entries' = [entries EXCEPT ![i] = <<>>]
    /\ article' = [article EXCEPT ![i] = <<>>]
    /\ stages' = [stages EXCEPT ![i] = <<>>]
    /\ raised' = [raised EXCEPT ![i] = ""]
    /\ logline' = [logline EXCEPT ![i] = ""]
    /\ tweet' = [tweet EXCEPT ![i] = <<>>]
    /\ sent' = [sent EXCEPT ![i] = <<>>]
    /\ UNCHANGED <<driver, feedFile, historyFile, readable, pubCount, calls, lastOp>>

\* ------------------------------------------------------------ one driver
\* Feed lists: one URL with a tag; comments and an empty line only; a blank
\* line before a URL line.
FeedFiles ==
    { <<"u", "!", "t">>,
      <<"#", "u", "\n", "\n">>,
      <<" ", "\n", "u", " ", "t">> }

Absent == [exists |-> FALSE, text |-> <<>>, whole |-> TRUE]

\* The history file before the first run: absent, an empty list, or an
\* empty file (left by a write that was cut off).
FirstFiles ==
    { Absent,
      [exists |-> TRUE, text |-> JsonDump(<<>>), whole |-> TRUE],
      [exists |-> TRUE, text |-> <<>>, whole |-> FALSE] }

\* A process that has not run yet.
Fresh(at) ==
    /\ pc = [i \in Insts |-> IF i = 1 THEN at ELSE "off"]
    /\ posted_articles = [i \in Insts |-> <<>>]
    /\ feed_url = [i \in Insts |-> <<>>]
    /\ entries = [i \in Insts |-> <<>>]
    /\ article = [i \in Insts |-> <<>>]
    /\ stages = [i \in Insts |-> <<>>]
    /\ raised = [i \in Insts |-> ""]
    /\ logline = [i \in Insts |-> ""]
    /\ pubCount = [l \in Links |-> 0]
    /\ runs = 0
    /\ calls = <<>>
    /\ lastOp = "none"
    /\ tweet = [i \in Insts |-> <<>>]
    /\ sent = [i \in Insts |-> <<>>]

Init ==
    /\ driver \in Drivers
    /\ feedFile \in FeedFiles
    /\ historyFile \in FirstFiles
    /\ readable \in BOOLEAN
    /\ (readable = FALSE) => historyFile.exists
    /\ Fresh("boot")

Next ==
    \E i \in Insts :
        \/ Construct(i)
        \/ SelectFeed(i)
        \/ Fetch(i)
        \/ Generate(i)
        \/ Publish(i)
        \/ SaveHistory(i)
        \/ Sleep(i)
        \/ Interrupt(i)
        \/ Restart(i)

Spec == Init /\ [][Next]_vars

\* ------------------------------------------------------------ feed selector alone
\* get_random_feed_url called on every feed list of up to MaxFileLen
\* characters, by each driver.
InitSel ==
    /\ driver \in Drivers
    /\ feedFile \in SeqsUpTo(FileChars, MaxFileLen)
    /\ historyFile = Absent
    /\ readable = TRUE
    /\ Fresh("select")

NextSel == SelectFeed(1)

SpecSel == InitSel /\ [][NextSel]_vars

\* ------------------------------------------------------------ fetcher alone
\* Histories as load_history may return them: any records, repeats included.
Histories ==
    SeqsUpTo({HistoryRecord(l, IsoFormat(t)) : l \in Links, t \in Times}, MaxHist)

\* get_latest_article called on every feed with every history.
InitFetch ==
    /\ driver \in Drivers
    /\ feedFile = <<"u">>
    /\ historyFile = Absent
    /\ readable = TRUE
    /\ pc = [i \in Insts |-> IF i = 1 THEN "fetch" ELSE "off"]
    /\ posted_articles \in [Insts -> Histories]
    /\ posted_articles[2] = <<>>
    /\ feed_url = [i \in Insts |-> IF i = 1 THEN <<feedFile>> ELSE <<>>]
    /\ entries = [i \in Insts |-> <<>>]
    /\ article = [i \in Insts |-> <<>>]
    /\ stages = [i \in Insts |-> IF i = 1 THEN <<"select">> ELSE <<>>]
    /\ raised = [i \in Insts |-> ""]
    /\ logline = [i \in Insts |-> ""]
    /\ pubCount = [l \in Links |-> 0]
    /\ runs = 0
    /\ calls = <<>>
    /\ lastOp = "none"
    /\ tweet = [i \in Insts |-> <<>>]
    /\ sent = [i \in Insts |-> <<>>]

NextFetch == Fetch(1)

SpecFetch == InitFetch /\ [][NextFetch]_vars

\* ------------------------------------------------------------ history store alone
\* The urls given to save_history: plain, with a quote, with a backslash.
StoreUrls == {<<"a">>, <<"b", "\"">>, <<"\\", "n">>}

\* The urls of a history, in order.
UrlSeq(hist) == [j \in 1..Len(hist) |-> hist[j][KeyUrl]]

\* bot.save_history(url) with any url, at any time, with any outcome of the
\* write.
CallSave ==
    /\ pc[1] = "store"
    /\ Len(posted_articles[1]) < MaxSaves
    /\ \E url \in StoreUrls, t \in Times, o \in WriteOutcomes :
         LET hist == AppendRecord(posted_articles[1], url, t)
         IN  /\ posted_articles' = [posted_articles EXCEPT ![1] = hist]
             /\ \E k \in CutPoints(hist) : historyFile' = WrittenFile(historyFile, hist, o, k)
             /\ calls' = Append(calls, url)
             /\ lastOp' = IF o = "ok" THEN "save_ok" ELSE "save_failed"
    /\ UNCHANGED <<driver, feedFile, readable, pc, feed_url, entries, article,
                   stages, raised, logline, pubCount, runs,
                   tweet, sent>>

\* A new bot object: posted_articles = load_history().  When load_history
\* raises there is no bot to call.
CallLoad ==
    /\ pc[1] = "store"
    /\ lastOp \in {"save_ok", "save_failed"}
    /\ LET r == LoadHistory(historyFile, readable)
       IN  IF r.err = ""
           THEN /\ posted_articles' = [posted_articles EXCEPT ![1] = r.val]
                /\ calls' = UrlSeq(r.val)
                /\ lastOp' = "load"
                /\ UNCHANGED <<pc, raised>>
           ELSE /\ pc' = [pc EXCEPT ![1] = "failed"]
                /\ raised' = [raised EXCEPT ![1] = r.err]
                /\ lastOp' = "load_failed"
                /\ UNCHANGED <<posted_articles, calls>>
    /\ UNCHANGED <<driver, feedFile, historyFile, readable, feed_url, entries,
                   article, stages, logline, pubCount, runs,
                   tweet, sent>>

InitStore ==
    /\ driver \in Drivers
    /\ feedFile = <<"u">>
    /\ historyFile = Absent
    /\ readable = TRUE
    /\ Fresh("store")

NextStore == CallSave \/ CallLoad

SpecStore == InitStore /\ [][NextStore]_vars

\* ------------------------------------------------------------ properties
\* The urls of the records of a history.
UrlsOf(hist) == {hist[j][KeyUrl] : j \in 1..Len(hist)}

\* How often x occurs in sequence q.
Count(x, q) == Cardinality({j \in 1..Len(q) : q[j] = x})

\* C1: for one driver process, over all cycles and restarts, no link is
\* published with success more than once.
C1_NeverPublishedTwice == \A l \in Links : pubCount[l] <= 1

\* C2: when get_latest_article returns an article, its link is the url of no
\* history record, and every entry before it in the feed has a link that is
\* the url of some history record.
C2_FirstUnseenReturned ==
    pc[1] = "generate" =>
        /\ Len(article[1]) = 1
        /\ article[1][1].link \notin UrlsOf(posted_articles[1])
        /\ \E k \in 1..Len(entries[1]) :
             /\ entries[1][k] = article[1][1]
             /\ \A j \in 1..(k - 1) : entries[1][j].link \in UrlsOf(posted_articles[1])

\* A feed of two entries whose first is in the history: the second is returned.
C2_Witness ==
    /\ pc[1] = "generate"
    /\ Len(entries[1]) = 2
    /\ entries[1][1].link \in UrlsOf(posted_articles[1])
    /\ article[1] = <<entries[1][2]>>

\* C3: get_latest_article raises "no entries" when the feed is empty, and
\* "no new articles" exactly when the feed is not empty and every link is the
\* url of a history record; then no article is returned and the history is
\* as it was.
C3_FetchErrors ==
    [][pc[1] = "fetch" /\ stages'[1] # stages[1] =>
          /\ (entries'[1] = <<>>) => raised'[1] = "NoEntries"
          /\ raised'[1] = "NoNewArticles" <=>
                 /\ entries'[1] # <<>>
                 /\ \A k \in 1..Len(entries'[1]) :
                      entries'[1][k].link \in UrlsOf(posted_articles[1])
          /\ raised'[1] \in {"", "NoEntries", "NoNewArticles"}
          /\ raised'[1] # "" =>
                 /\ article'[1] = <<>>
                 /\ pc'[1] # "generate"
                 /\ posted_articles' = posted_articles
                 /\ historyFile' = historyFile]_vars

\* A feed of two entries, both in the history.
C3_Witness ==
    /\ raised[1] = "NoNewArticles"
    /\ Len(entries[1]) = 2
    /\ entries[1][1] # entries[1][2]

\* A line that holds a URL: it starts with a URL character.
IsUrlLine(line) == Len(line) > 0 /\ line[1] = "u"

HasUrlLine(content) ==
    \E k \in 1..Len(SplitLines(content)) : IsUrlLine(SplitLines(content)[k])

\* C4: when the feed list has a valid line, get_random_feed_url returns
\* neither a blank string nor a string that starts with '#'.
C4_NeverBlankNorComment ==
    pc[1] = "fetch" /\ HasUrlLine(feedFile) =>
        /\ feed_url[1][1] # <<>>
        /\ ~StartsWith(feed_url[1][1], "#")

\* No line is left once the empty lines and the '#' lines are dropped.
NoLineLeft(content) ==
    \A k \in 1..Len(SplitLines(content)) :
        SplitLines(content)[k] = <<>> \/ SplitLines(content)[k][1] = "#"

\* C5: when no line is left after the filter, get_random_feed_url raises and
\* returns no URL, and the cycle fetches, generates, publishes and writes
\* nothing.
C5_EmptyListFails ==
    /\ [](NoLineLeft(feedFile) =>
            /\ feed_url[1] = <<>>
            /\ pc[1] \notin {"fetch", "generate", "publish", "save", "done"}
            /\ stages[1] \in {<<>>, <<"select">>}
            /\ stages[1] = <<"select">> => raised[1] = "IndexError" /\ logline[1] # "")
    /\ [][NoLineLeft(feedFile) =>
            historyFile' = historyFile /\ pubCount' = pubCount]_vars

\* The select stage has failed on a list of comments and empty lines.
C5_Witness ==
    /\ NoLineLeft(feedFile)
    /\ feedFile # <<>>
    /\ stages[1] = <<"select">>
    /\ pc[1] \in {"failed", "sleep"}

\* C6: in the tweet drivers a failure at any stage is logged and raised
\* again, which ends the process as failed; the run ends with success only
\* when every stage succeeded.
C6_SingleShotFails ==
    SingleShot(driver) =>
        /\ raised[1] # "" => pc[1] = "failed" /\ logline[1] = "Error"
        /\ pc[1] = "failed" => raised[1] # ""
        /\ pc[1] \notin {"sleep", "stopped"}
        /\ pc[1] = "done" =>
              /\ stages[1] = CycleStages
              /\ feed_url[1] # <<>> /\ article[1] # <<>>
              /\ pubCount[article[1][1].link] >= 1
              /\ historyFile.exists /\ historyFile.whole
              /\ historyFile.text = JsonDump(posted_articles[1])

\* A tweet driver whose history write failed, after the publish.
C6_Witness ==
    /\ SingleShot(driver)
    /\ pc[1] = "failed"
    /\ raised[1] = "OSError"
    /\ stages[1] = CycleStages

\* C7: in the loop drivers a failure inside a cycle is logged and swallowed:
\* the rest of the cycle is skipped, the sleep is reached and the next cycle
\* can start; the loop ends only by Ctrl-C (a clean stop) or by a failure
\* outside the cycle guard (fatal).
C7_LoopSwallows ==
    /\ [](~SingleShot(driver) /\ pc[1] = "sleep" => ENABLED Sleep(1))
    /\ [][~SingleShot(driver) =>
            /\ pc[1] \in {"select", "fetch", "generate", "publish", "save"}
               /\ stages'[1] # stages[1] /\ raised'[1] # ""
                   => /\ pc'[1] = "sleep"
                      /\ logline'[1] = "Error in main loop"
                      /\ stages'[1] = SubSeq(CycleStages, 1, Len(stages'[1]))
                      /\ stages'[1][Len(stages'[1])] = pc[1]
            /\ pc[1] = "sleep" /\ pc'[1] # "sleep" => pc'[1] \in {"select", "stopped"}
            /\ pc'[1] = "stopped" /\ pc[1] # "stopped"
                   => pc[1] \in Running /\ raised' = raised /\ logline' = logline
            /\ pc'[1] = "failed" /\ pc[1] # "failed"
                   => pc[1] = "boot" /\ logline'[1] = "Fatal error"
            /\ pc'[1] \notin {"done", "killed"}]_vars

\* A loop driver at the sleep after the generation endpoint failed.
C7_Witness ==
    /\ ~SingleShot(driver)
    /\ pc[1] = "sleep"
    /\ raised[1] = "ApiError"
    /\ stages[1] = <<"select", "fetch", "generate">>

\* C8: the constructor starts with an empty history when the history file is
\* absent, and fails (no cycle runs, in the loop drivers neither) when the
\* file exists but may not be read or was cut off.
C8_LoadAtStartup ==
    /\ [](pc[1] = "failed" /\ raised[1] \in {"PermissionError", "JSONDecodeError"}
            => stages[1] = <<>> /\ feed_url[1] = <<>>)
    /\ [][pc[1] = "boot" /\ pc'[1] \notin {"boot", "stopped", "killed"} =>
            /\ ~historyFile.exists =>
                  posted_articles'[1] = <<>> /\ pc'[1] = "select" /\ raised'[1] = ""
            /\ historyFile.exists /\ (~readable \/ ~historyFile.whole) =>
                  /\ pc'[1] = "failed"
                  /\ raised'[1] \in {"PermissionError", "JSONDecodeError"}
                  /\ logline'[1] = IF SingleShot(driver) THEN "Error" ELSE "Fatal error"]_vars

\* A loop driver that found a history file cut off by an earlier write.
C8_Witness ==
    /\ ~SingleShot(driver)
    /\ pc[1] = "failed"
    /\ raised[1] = "JSONDecodeError"
    /\ Len(historyFile.text) > 0
    /\ runs > 0

\* C9: the store does not deduplicate: every save_history call makes the
\* history one record longer, and a reload after a completed write yields as
\* many records for a url as save_history was called with it.
C9_NoDedup ==
    [][/\ lastOp' \in {"save_ok", "save_failed"} =>
              Len(posted_articles'[1]) = Len(posted_articles[1]) + 1
       /\ lastOp = "save_ok" /\ lastOp' \in {"load", "load_failed"} =>
              /\ lastOp' = "load"
              /\ \A u \in StoreUrls :
                   Count(u, UrlSeq(posted_articles'[1])) = Count(u, calls)]_vars

\* Two saves of one url, then a reload: two records for it.
C9_Witness ==
    /\ lastOp = "load"
    /\ \E u \in StoreUrls : Count(u, UrlSeq(posted_articles[1])) = 2

\* C10: a reload after save_history(url) wrote the file gives back the
\* record with the same url and the same timestamp at the same position, and
\* all earlier records as they were.
C10_RoundTrip ==
    [][lastOp = "save_ok" /\ lastOp' \in {"load", "load_failed"} =>
          /\ lastOp' = "load"
          /\ posted_articles'[1] = posted_articles[1]
          /\ \E t \in Times :
               posted_articles'[1][Len(calls)] = HistoryRecord(calls[Len(calls)], IsoFormat(t))]_vars

\* A reloaded history of two records whose last url needs escaping and whose
\* timestamp has microseconds.
C10_Witness ==
    /\ lastOp = "load"
    /\ Len(posted_articles[1]) = 2
    /\ posted_articles[1][2] = HistoryRecord(<<"b", "\"">>, IsoFormat([sec |-> 7, usec |-> 5]))

\* ------------------------------------------------------------ history file and memory
\* A bot object exists in process i: the constructor has returned.
HasBot(i) ==
    \/ pc[i] \in {"select", "fetch", "generate", "publish", "save", "sleep", "done"}
    \/ pc[i] \in {"failed", "stopped", "killed"} /\ stages[i] # <<>>

\* The file holds exactly the history hist: it is absent and hist is empty,
\* or its text is the dump of hist.
FileHolds(file, hist) ==
    \/ ~file.exists /\ hist = <<>>
    \/ file.exists /\ file.text = JsonDump(hist)

\* p is a prefix of q.
IsPrefix(p, q) == Len(p) <= Len(q) /\ SubSeq(q, 1, Len(p)) = p

\* The records that can be read from the file: none when it is absent or
\* no JSON document.
RecordsOf(file) == IF file.exists THEN JsonLoad(file.text).val ELSE <<>>

\* C11: for one driver process, whenever no save_history call is running,
\* the history file holds exactly posted_articles, also after a save_history
\* call whose write failed.
C11_FileEqualsMemory == HasBot(1) => FileHolds(historyFile, posted_articles[1])

\* C12: in every cycle the stages run in the order select, fetch, generate,
\* publish, save, each at most once and only after the earlier ones
\* succeeded; a record for a link is added only in a cycle whose publish of
\* that link succeeded, and no other step of a cycle changes the history in
\* memory or on file.
C12_StagesInOrder ==
    /\ [](/\ IsPrefix(stages[1], CycleStages)
          /\ pc[1] \in {"fetch", "generate", "publish", "save"} =>
                /\ raised[1] = ""
                /\ Len(stages[1]) >= 1
                /\ CycleStages[Len(stages[1]) + 1] = pc[1]
          /\ pc[1] = "save" => pubCount[article[1][1].link] >= 1)
    /\ [][/\ stages'[1] # stages[1] /\ stages'[1] # <<>> =>
                /\ stages'[1] = SubSeq(CycleStages, 1, Len(stages'[1]))
                /\ stages'[1][Len(stages'[1])] = pc[1]
                /\ Len(stages'[1]) > 1 => stages'[1] = Append(stages[1], pc[1]) /\ raised[1] = ""
          /\ HasBot(1) /\ pc'[1] # "boot"
             /\ (posted_articles'[1] # posted_articles[1] \/ historyFile' # historyFile) =>
                /\ pc[1] = "save"
                /\ stages[1] = SubSeq(CycleStages, 1, 4)
                /\ pubCount[article[1][1].link] >= 1
                /\ UrlSeq(posted_articles'[1]) =
                       Append(UrlSeq(posted_articles[1]), article[1][1].link)
          /\ pc[1] = "publish" /\ pubCount' # pubCount => pc'[1] = "save"]_vars

\* The fifth stage has run after four that succeeded, and the record is in.
C12_Witness ==
    /\ stages[1] = CycleStages
    /\ pc[1] \in {"done", "sleep"}
    /\ raised[1] = ""
    /\ Len(posted_articles[1]) = 2

\* C13: the history is append-only: at every step of one driver process the
\* history in memory and the history on file each keep their previous value
\* as a prefix.
C13_AppendOnly ==
    [][/\ HasBot(1) /\ pc'[1] # "boot" => IsPrefix(posted_articles[1], posted_articles'[1])
       /\ IsPrefix(RecordsOf(historyFile), RecordsOf(historyFile'))]_vars

\* ------------------------------------------------------------ two drivers, one file
\* Two processes of the same loop driver are started with the same feed list
\* (the stable feed) and the same history file; nothing orders their steps.
InitRace ==
    /\ driver \in {"discord", "slack"}
    /\ feedFile = StableUrl
    /\ historyFile = Absent
    /\ readable = TRUE
    /\ pc = [i \in Insts |-> "boot"]
    /\ posted_articles = [i \in Insts |-> <<>>]
    /\ feed_url = [i \in Insts |-> <<>>]
    /\ entries = [i \in Insts |-> <<>>]
    /\ article = [i \in Insts |-> <<>>]
    /\ stages = [i \in Insts |-> <<>>]
    /\ raised = [i \in Insts |-> ""]
    /\ logline = [i \in Insts |-> ""]
    /\ pubCount = [l \in Links |-> 0]
    /\ runs = 0
    /\ calls = <<>>
    /\ lastOp = "none"
    /\ tweet = [i \in Insts |-> <<>>]
    /\ sent = [i \in Insts |-> <<>>]

NextRace ==
    \E i \in Insts :
        \/ Construct(i)
        \/ SelectFeed(i)
        \/ Fetch(i)
        \/ Generate(i)
        \/ Publish(i)
        \/ SaveHistory(i)
        \/ Sleep(i)

SpecRace == InitRace /\ [][NextRace]_vars

\* C14: two drivers on one history file race: nothing holds a save back, a
\* completed save leaves in the file exactly the history of the process that
\* saved (whatever the file held), and no process reads the file again after
\* its start; so both can publish the same link and a rewrite can drop a
\* record the other process appended.
C14_NoLockNoReread ==
    /\ [](\A i \in Insts : pc[i] = "save" => ENABLED SaveHistory(i))
    /\ [][\A i \in Insts :
            /\ pc[i] = "save" /\ pc'[i] = "sleep" /\ raised'[i] = "" =>
                  /\ historyFile'.whole
                  /\ RecordsOf(historyFile') = posted_articles'[i]
                  /\ Len(posted_articles'[i]) = Len(posted_articles[i]) + 1
            /\ pc[i] # "boot" /\ posted_articles'[i] # posted_articles[i] => pc[i] = "save"]_vars

\* Both processes have published one link, and the file, last written by
\* process 2, lacks a record that process 1 had written to it.
C14_Witness ==
    \E l \in Links, m \in Links :
        /\ pubCount[l] = 2
        /\ pc[1] = "sleep" /\ raised[1] = "" /\ stages[1] = CycleStages
        /\ posted_articles[1][Len(posted_articles[1])][KeyUrl] = m
        /\ pc[2] = "sleep" /\ raised[2] = "" /\ stages[2] = CycleStages
        /\ historyFile.whole
        /\ RecordsOf(historyFile) = posted_articles[2]
        /\ m \notin UrlsOf(RecordsOf(historyFile))

\* ------------------------------------------------------------ link enforcement alone
\* How many pieces a generated text is built from.
MaxPieces == 3

\* The pieces of a generated text: the placeholder, a broken placeholder,
\* a letter, white space, and the links.
Pieces == {Placeholder, <<"[", "U">>, <<"x">>, <<" ">>} \cup Links

\* The pieces of ps joined.
RECURSIVE Concat(_)
Concat(ps) == IF ps = <<>> THEN <<>> ELSE Head(ps) \o Concat(Tail(ps))

\* The texts generate_tweet may return: stripped at both ends.
TweetTexts == {Strip(Concat(ps)) : ps \in SeqsUpTo(Pieces, MaxPieces)}

\* main() of the local driver after generate_tweet, with every text and
\* every article.
InitTweet ==
    /\ driver = "local"
    /\ feedFile = <<"u">>
    /\ historyFile = Absent
    /\ readable = TRUE
    /\ pc = [i \in Insts |-> IF i = 1 THEN "publish" ELSE "off"]
    /\ posted_articles = [i \in Insts |-> <<>>]
    /\ feed_url = [i \in Insts |-> IF i = 1 THEN <<feedFile>> ELSE <<>>]
    /\ \E l \in Links :
         /\ entries = [i \in Insts |-> IF i = 1 THEN <<Entry(l)>> ELSE <<>>]
         /\ article = [i \in Insts |-> IF i = 1 THEN <<Entry(l)>> ELSE <<>>]
    /\ stages = [i \in Insts |-> IF i = 1 THEN <<"select", "fetch", "generate">> ELSE <<>>]
    /\ raised = [i \in Insts |-> ""]
    /\ logline = [i \in Insts |-> ""]
    /\ pubCount = [l \in Links |-> 0]
    /\ runs = 0
    /\ calls = <<>>
    /\ lastOp = "none"
    /\ \E t \in TweetTexts : tweet = [i \in Insts |-> IF i = 1 THEN <<t>> ELSE <<>>]
    /\ sent = [i \in Insts |-> <<>>]

NextTweet == Publish(1)

SpecTweet == InitTweet /\ [][NextTweet]_vars

\* How often sub occurs in s.
Occurrences(sub, s) ==
    Cardinality({k \in 0..(Len(s) - Len(sub)) : SubSeq(s, k + 1, k + Len(sub)) = sub})

\* s is p followed by white space only, and p does not end in white space.
IsRightStripOf(p, s) ==
    /\ IsPrefix(p, s)
    /\ \A k \in (Len(p) + 1)..Len(s) : s[k] \in Whitespace
    /\ p # <<>> => p[Len(p)] \notin Whitespace

\* C15: in the local tweet driver the text given to the publisher always
\* holds the article link: a generated text that holds the link goes out
\* as it is; otherwise, when it holds the placeholder [URL], every
\* placeholder is replaced by the link and nothing else changes; otherwise
\* the link is appended, after one space, to the right-stripped text.
C15_LinkInPostedText ==
    sent[1] # <<>> =>
        LET text == tweet[1][1]
            link == article[1][1].link
            out  == sent[1][1]
            n    == Occurrences(Placeholder, text)
        IN  /\ Contains(link, out)
            /\ Contains(link, text) => out = text
            /\ ~Contains(link, text) /\ n > 0 =>
                  /\ Occurrences(Placeholder, out) = 0
                  /\ Occurrences(link, out) = n
                  /\ Len(out) = Len(text) + n * (Len(link) - Len(Placeholder))
            /\ ~Contains(link, text) /\ n = 0 =>
                  LET m == Len(out) - Len(link) - 1
                  IN  /\ m >= 0
                      /\ IsRightStripOf(SubSeq(out, 1, m), text)
                      /\ out[m + 1] = " "
                      /\ SubSeq(out, m + 2, Len(out)) = link

\* A text with two placeholders and without the link was handed to the
\* publisher.
C15_Witness ==
    /\ driver = "local"
    /\ pc[1] = "save"
    /\ sent[1] # <<>>
    /\ Occurrences(Placeholder, tweet[1][1]) = 2
    /\ ~Contains(article[1][1].link, tweet[1][1])
    /\ Occurrences(article[1][1].link, sent[1][1]) = 2

====
